---- MODULE Spec2Model ----
(***************************************************************************)
(* Model of par_seq (src/src/lib.rs): par_map and par_in_place_map.        *)
(*                                                                         *)
(* One behaviour of the model is one call of one of the two functions.     *)
(* The caller plans the chunks (lines 129-130 / 165-166), spawns one       *)
(* thread per loop iteration (131-148 / 167-182) and joins the handles in  *)
(* spawn order, returning at the first Err (149-154 / 183-188).  A spawned *)
(* thread runs the kernel of the tests (202-206 / 220-224) element by      *)
(* element over the raw slice it was handed, and may panic.                *)
(*                                                                         *)
(* usize arithmetic is kept modulo 2^UsizeBits.  A debug build panics on   *)
(* overflow, a release build wraps: Plan takes either outcome.             *)
(* An access through a raw slice that leaves the caller's buffer is        *)
(* undefined behaviour; the model records it in oob and lets the process   *)
(* either crash or carry on, the accesses of that view that would follow   *)
(* being collapsed into the same step.                                     *)
(*                                                                         *)
(* Spec is the call with its threads interleaved element by element;       *)
(* FairSpec adds the scheduling of OS threads, over shorter buffers;       *)
(* SpecPlan is the caller up to the end of the spawn loop, over longer     *)
(* buffers; Spec64 is the scenario of the tests, a kernel call per step.   *)
(***************************************************************************)
EXTENDS Integers, Sequences, FiniteSets, TLC

\* ---- bounds of the model -------------------------------------------------
MaxLen == 5
MaxThreads == 4
UsizeBits == 16
MaxFairLen == 3
MaxFairThreads == 3
MaxPlanLen == 10
MaxPlanThreads == 7

\* ---- constants of the program -------------------------------------------
ElemMod == 256
KernelX == 1
TestLen == 64
TestThreads == 3

UsizeMod == 2 ^ UsizeBits

VARIABLES
    fn,              \* "par_map" | "par_in_place_map": the function called
    src,             \* par_map's src slice (<<>> for par_in_place_map)
    dest,            \* the dest slice
    num_threads,     \* the num_threads argument
    panics,          \* spawn indices whose kernel invocation panics
    pc,              \* position of the caller
    chunk_size,
    last_chunk_size,
    i,               \* loop variable of the spawn loop
    th,              \* the spawned threads, in spawn order
    j,               \* number of handles of th joined so far
    result,          \* "none" | "Ok" | "Err" | "panic"
    err,             \* spawn index of the thread whose payload Err carries
    reads,           \* indices of the input buffer read by some kernel
    writers,         \* per dest index, the spawn indices that wrote it
    oob              \* some access left the caller's buffers

vars == <<fn, src, dest, num_threads, panics, pc, chunk_size,
          last_chunk_size, i, th, j, result, err, reads, writers, oob>>

inputs == <<fn, src, num_threads, panics>>

\* ---- buffers --------------------------------------------------------------
\* vec![0_u8; len] of the tests
Zeros(n) == [x \in 1..n |-> 0]

\* a buffer whose elements differ, for the in-place map
Ramp(n) == [x \in 1..n |-> x % ElemMod]

\* the length the chunks are planned over: src.len() or dest.len()
PlanLen == IF fn = "par_map" THEN Len(src) ELSE Len(dest)

\* the dest slice as the caller passed it
Dest0 == IF fn = "par_map" THEN Zeros(Len(dest)) ELSE Ramp(Len(dest))

\* ---- the kernel of the tests: d[i] = s[i] + x, with x = 1 -----------------
KernelElem(e) == (e + KernelX) % ElemMod

\* ---- chunk arithmetic (lines 129-130, 165-166) --------------------------
\* mutant: the quotient rounded down
ChunkSizeFloor(len, n, bld) ==
    IF n = 0 THEN [ok |-> FALSE, v |-> 0]
    ELSE [ok |-> TRUE, v |-> len \div n]

\* mutant: the quotient rounded up by adding one instead of by ceiling
ChunkSizePlusOne(len, n, bld) ==
    IF n = 0 THEN [ok |-> FALSE, v |-> 0]
    ELSE [ok |-> TRUE, v |-> (len \div n) + 1]

\* (len + num_threads - 1) / num_threads; a record [ok, v]
ChunkSize(len, n, bld) ==
    LET a == (len + n) % UsizeMod
        aOver == len + n >= UsizeMod
        b == (a - 1 + UsizeMod) % UsizeMod
        bUnder == a = 0
    IN  IF bld = "debug" /\ (aOver \/ bUnder) THEN [ok |-> FALSE, v |-> 0]
        ELSE IF n = 0 THEN [ok |-> FALSE, v |-> 0]
        ELSE [ok |-> TRUE, v |-> b \div n]

\* mutant: the remainder taken after num_threads chunks, not num_threads - 1
LastChunkSizeAllChunks(len, n, cs, bld) ==
    LET m == (cs * n) % UsizeMod
        l == (len - m + UsizeMod) % UsizeMod
    IN  IF bld = "debug" /\ m > len THEN [ok |-> FALSE, v |-> 0]
        ELSE [ok |-> TRUE, v |-> l]

\* len - (chunk_size * (num_threads - 1)); a record [ok, v]
LastChunkSize(len, n, cs, bld) ==
    LET n1 == n - 1
        m == (cs * n1) % UsizeMod
        mOver == cs * n1 >= UsizeMod
        l == (len - m + UsizeMod) % UsizeMod
        lUnder == m > len
    IN  IF bld = "debug" /\ (mOver \/ lUnder) THEN [ok |-> FALSE, v |-> 0]
        ELSE [ok |-> TRUE, v |-> l]

\* mutant: every chunk, the last one too, gets chunk_size
CsNoLast(k, n, cs, last) == cs

\* let cs = if i < num_threads - 1 { chunk_size } else { last_chunk_size }
Cs(k, n, cs, last) == IF k < n - 1 THEN cs ELSE last

\* mutant: the offset of the previous chunk
IdxPrevious(k, cs) == IF k = 0 THEN 0 ELSE (cs * (k - 1)) % UsizeMod

\* let idx = (chunk_size * i) as isize
Idx(k, cs) == (cs * k) % UsizeMod

\* the view of the thread spawned by iteration k (lines 133-144, 169-178)
Chunk(k) == [off |-> Idx(k, chunk_size),
             len |-> Cs(k, num_threads, chunk_size, last_chunk_size)]

\* ---- initial states: the arguments of one call ---------------------------
InitFor(maxLen, maxThreads) ==
    /\ fn \in {"par_map", "par_in_place_map"}
    /\ num_threads \in 0..maxThreads
    /\ panics \in SUBSET (0..(num_threads - 1))
    /\ \E ls \in 0..maxLen, ld \in 0..maxLen :
          IF fn = "par_map"
          THEN /\ ld \in {ls - 1, ls, ls + 1}
               /\ src = Zeros(ls)
               /\ dest = Zeros(ld)
          ELSE /\ ls = 0
               /\ src = <<>>
               /\ dest = Ramp(ld)
    /\ pc = "plan"
    /\ chunk_size = 0
    /\ last_chunk_size = 0
    /\ i = 0
    /\ th = <<>>
    /\ j = 0
    /\ result = "none"
    /\ err = -1
    /\ reads = {}
    /\ writers = [x \in 1..Len(dest) |-> {}]
    /\ oob = FALSE

Init == InitFor(MaxLen, MaxThreads)

\* ---- the caller -----------------------------------------------------------
\* lines 128-130 / 164-166: the chunk sizes, or a panic of the caller;
\* bld is the build the crate was compiled as (overflow checks on or off)
Plan ==
    /\ pc = "plan"
    /\ \E bld \in {"debug", "release"} :
       LET r1 == ChunkSize(PlanLen, num_threads, bld)
           r2 == LastChunkSize(PlanLen, num_threads, r1.v, bld)
       IN  IF r1.ok /\ r2.ok
           THEN /\ chunk_size' = r1.v
                /\ last_chunk_size' = r2.v
                /\ pc' = "spawn"
                /\ result' = result
           ELSE /\ pc' = "panicked"
                /\ result' = "panic"
                /\ UNCHANGED <<chunk_size, last_chunk_size>>
    /\ UNCHANGED <<inputs, dest, i, th, j, err, reads, writers, oob>>

\* lines 131-148 / 167-182: one iteration of the spawn loop
Spawn ==
    /\ pc = "spawn"
    /\ i < num_threads
    /\ th' = Append(th, [off |-> Chunk(i).off,
                         len |-> Chunk(i).len,
                         pos |-> 0,
                         st  |-> "running"])
    /\ i' = i + 1
    /\ pc' = IF i + 1 < num_threads THEN "spawn" ELSE "join"
    /\ UNCHANGED <<inputs, dest, chunk_size, last_chunk_size, j, result, err,
                   reads, writers, oob>>

\* mutant: the caller waits for a thread to end normally, which a panicked
\* thread never does
JoinOnlyDone ==
    /\ pc = "join"
    /\ j < Len(th)
    /\ th[j + 1].st = "done"
    /\ result' = IF j + 1 = Len(th) THEN "Ok" ELSE result
    /\ pc' = IF j + 1 = Len(th) THEN "returned" ELSE "join"
    /\ j' = j + 1
    /\ UNCHANGED <<inputs, dest, chunk_size, last_chunk_size, i, th, err, reads,
                   writers, oob>>

\* mutant: the handle is polled, not waited for: a thread still running
\* counts as ended normally
JoinNoWait ==
    /\ pc = "join"
    /\ j < Len(th)
    /\ IF th[j + 1].st = "panicked"
       THEN /\ result' = "Err"
            /\ err' = j
            /\ pc' = "returned"
       ELSE /\ result' = IF j + 1 = Len(th) THEN "Ok" ELSE result
            /\ err' = err
            /\ pc' = IF j + 1 = Len(th) THEN "returned" ELSE "join"
    /\ j' = j + 1
    /\ UNCHANGED <<inputs, dest, chunk_size, last_chunk_size, i, th, reads,
                   writers, oob>>

\* mutant: each handle is joined inside the spawn loop, right after its spawn
JoinInsideSpawnLoop ==
    /\ pc \in {"spawn", "join"}
    /\ j < Len(th)
    /\ th[j + 1].st # "running"
    /\ IF th[j + 1].st = "panicked"
       THEN /\ result' = "Err"
            /\ err' = j
            /\ pc' = "returned"
       ELSE /\ result' = IF pc = "join" /\ j + 1 = Len(th) THEN "Ok" ELSE result
            /\ err' = err
            /\ pc' = IF pc = "join" /\ j + 1 = Len(th) THEN "returned" ELSE pc
    /\ j' = j + 1
    /\ UNCHANGED <<inputs, dest, chunk_size, last_chunk_size, i, th, reads,
                   writers, oob>>

\* mutant: the loop remembers a failure and goes on, so that the Err returned
\* is the one of the last thread that failed
JoinKeepsLast ==
    /\ pc = "join"
    /\ j < Len(th)
    /\ th[j + 1].st # "running"
    /\ LET failed == th[j + 1].st = "panicked"
           r == IF failed THEN "Err" ELSE IF result = "none" THEN "Ok" ELSE result
       IN  /\ err' = IF failed THEN j ELSE err
           /\ result' = IF j + 1 = Len(th) THEN r
                         ELSE IF failed THEN "Err" ELSE result
    /\ pc' = IF j + 1 = Len(th) THEN "returned" ELSE "join"
    /\ j' = j + 1
    /\ UNCHANGED <<inputs, dest, chunk_size, last_chunk_size, i, th, reads,
                   writers, oob>>

\* lines 149-154 / 183-188: t.join() of the next handle; blocks while the
\* thread runs; Err returns at once, the last Ok falls through to Ok(())
Join ==
    /\ pc = "join"
    /\ j < Len(th)
    /\ th[j + 1].st # "running"
    /\ IF th[j + 1].st = "panicked"
       THEN /\ result' = "Err"
            /\ err' = j
            /\ pc' = "returned"
       ELSE /\ result' = IF j + 1 = Len(th) THEN "Ok" ELSE result
            /\ err' = err
            /\ pc' = IF j + 1 = Len(th) THEN "returned" ELSE "join"
    /\ j' = j + 1
    /\ UNCHANGED <<inputs, dest, chunk_size, last_chunk_size, i, th, reads,
                   writers, oob>>

\* ---- the spawned threads --------------------------------------------------
Alive(t) == /\ pc \notin {"crashed"}
            /\ t < Len(th)
            /\ th[t + 1].st = "running"

\* absolute index of the element thread t is about to touch
At(t) == th[t + 1].off + th[t + 1].pos

\* the index lies inside every buffer the kernel touches there
InBounds(k) == IF fn = "par_map" THEN k < Len(src) /\ k < Len(dest)
               ELSE k < Len(dest)

\* one iteration of the kernel loop, inside the buffers
KernelStep(t) ==
    /\ Alive(t)
    /\ th[t + 1].pos < th[t + 1].len
    /\ InBounds(At(t))
    /\ LET k == At(t)
           x == IF fn = "par_map" THEN src[k + 1] ELSE dest[k + 1]
       IN  /\ dest' = [dest EXCEPT ![k + 1] = KernelElem(x)]
           /\ reads' = reads \cup {k}
           /\ writers' = [writers EXCEPT ![k + 1] = @ \cup {t}]
    /\ th' = [th EXCEPT ![t + 1].pos = @ + 1]
    /\ UNCHANGED <<inputs, pc, chunk_size, last_chunk_size, i, j, result, err,
                   oob>>

\* one iteration of the kernel loop that leaves a buffer: undefined behaviour
KernelOutOfBounds(t) ==
    /\ Alive(t)
    /\ th[t + 1].pos < th[t + 1].len
    /\ ~InBounds(At(t))
    /\ oob' = TRUE
    /\ \/ /\ pc' = "crashed"
          /\ th' = th
       \/ /\ pc' = pc
          /\ th' = [th EXCEPT ![t + 1].pos = th[t + 1].len]
    /\ UNCHANGED <<inputs, dest, chunk_size, last_chunk_size, i, j, result,
                   err, reads, writers>>

\* the kernel returns and the thread ends
KernelReturn(t) ==
    /\ Alive(t)
    /\ t \notin panics
    /\ th[t + 1].pos = th[t + 1].len
    /\ th' = [th EXCEPT ![t + 1].st = "done"]
    /\ UNCHANGED <<inputs, dest, pc, chunk_size, last_chunk_size, i, j, result,
                   err, reads, writers, oob>>

\* the kernel panics, at any point of its run
KernelPanic(t) ==
    /\ Alive(t)
    /\ t \in panics
    /\ th' = [th EXCEPT ![t + 1].st = "panicked"]
    /\ UNCHANGED <<inputs, dest, pc, chunk_size, last_chunk_size, i, j, result,
                   err, reads, writers, oob>>

Thread == \E t \in 0..(MaxThreads - 1) :
              \/ KernelStep(t)
              \/ KernelOutOfBounds(t)
              \/ KernelReturn(t)
              \/ KernelPanic(t)

Next == Plan \/ Spawn \/ Join \/ Thread

Spec == Init /\ [][Next]_vars

\* ---- fair scheduling ------------------------------------------------------
\* any step of thread t
ThreadStep(t) ==
    KernelStep(t) \/ KernelOutOfBounds(t) \/ KernelReturn(t) \/ KernelPanic(t)

\* the caller and every spawned thread are OS threads: each keeps running
\* while it has a step to take, and a kernel invocation ends
Fairness ==
    /\ WF_vars(Plan)
    /\ WF_vars(Spawn)
    /\ WF_vars(Join)
    /\ \A t \in 0..(MaxThreads - 1) : WF_vars(ThreadStep(t))

\* the same calls over shorter buffers, for the checks of liveness
InitFair == InitFor(MaxFairLen, MaxFairThreads)

FairSpec == InitFair /\ [][Next]_vars /\ Fairness

\* ---- the chunk arithmetic alone, over longer buffers ---------------------
\* the caller up to the end of the spawn loop: the views handed out
InitPlan == InitFor(MaxPlanLen, MaxPlanThreads)

NextPlan == Plan \/ Spawn

SpecPlan == InitPlan /\ [][NextPlan]_vars

\* ---- the scenario of the tests: 64 zeros, 3 threads (or 7) ---------------
\* The kernel invocation of a thread is taken as one step here: the whole
\* loop over its view.  An element outside the buffers sets oob.
Init64 ==
    /\ fn \in {"par_map", "par_in_place_map"}
    /\ num_threads \in {TestThreads, 7}
    /\ panics = {}
    /\ src = IF fn = "par_map" THEN Zeros(TestLen) ELSE <<>>
    /\ dest = Zeros(TestLen)
    /\ pc = "plan"
    /\ chunk_size = 0
    /\ last_chunk_size = 0
    /\ i = 0
    /\ th = <<>>
    /\ j = 0
    /\ result = "none"
    /\ err = -1
    /\ reads = {}
    /\ writers = [x \in 1..Len(dest) |-> {}]
    /\ oob = FALSE

\* k.call(..) of thread t (lines 145 / 179) with the kernel of the tests
KernelRun(t) ==
    /\ Alive(t)
    /\ th[t + 1].pos = 0
    /\ th[t + 1].len > 0
    /\ LET lo == th[t + 1].off
           hi == th[t + 1].off + th[t + 1].len
           view == {k \in lo..(hi - 1) : InBounds(k)}
       IN  /\ dest' = [x \in 1..Len(dest) |->
                          IF (x - 1) \in view
                          THEN KernelElem(IF fn = "par_map" THEN src[x] ELSE dest[x])
                          ELSE dest[x]]
           /\ reads' = reads \cup view
           /\ writers' = [x \in 1..Len(dest) |->
                             IF (x - 1) \in view THEN writers[x] \cup {t}
                             ELSE writers[x]]
           /\ oob' = (oob \/ ~InBounds(hi - 1) \/ ~InBounds(lo))
    /\ th' = [th EXCEPT ![t + 1].pos = th[t + 1].len]
    /\ UNCHANGED <<inputs, pc, chunk_size, last_chunk_size, i, j, result, err>>

Thread64 == \E t \in 0..(num_threads - 1) : KernelRun(t) \/ KernelReturn(t)

Next64 == Plan \/ Spawn \/ Join \/ Thread64

Spec64 == Init64 /\ [][Next64]_vars


\* ---- properties -----------------------------------------------------------
Spawned == 0..(Len(th) - 1)
Returned == pc = "returned"
Ended == pc \in {"returned", "panicked", "crashed"}
AllSpawned == pc \in {"join", "returned", "crashed"}
In0 == IF fn = "par_map" THEN src ELSE Dest0
Min(S) == CHOOSE x \in S : \A y \in S : x <= y

\* C1: when the call has returned, with Ok or with Err, no spawned thread is
\* still running.
NoTaskOutlivesCall ==
    Returned => \A t \in Spawned : th[t + 1].st # "running"

\* C2: for num_threads in [1, len] the planned chunks start at 0, each starts
\* where the previous one ends, and the last one ends at len.
ChunksContiguous ==
    /\ Chunk(0).off = 0
    /\ \A k \in 0..(num_threads - 2) :
          /\ Chunk(k).len = chunk_size
          /\ Chunk(k + 1).off = Chunk(k).off + Chunk(k).len
    /\ Chunk(num_threads - 1).off + Chunk(num_threads - 1).len = PlanLen
ChunksPartitionBuffer ==
    (pc # "plan" /\ num_threads >= 1 /\ num_threads <= PlanLen)
        => (pc # "panicked" /\ ChunksContiguous)

\* C3: when num_threads exceeds len, exactly len threads are spawned, each
\* with a chunk of length 1, and no chunk length has underflowed.
ClampedToLength ==
    (pc # "plan" /\ num_threads > PlanLen)
        => /\ pc # "panicked"
           /\ \A k \in 0..(num_threads - 1) : Chunk(k).len <= PlanLen
           /\ AllSpawned => /\ Len(th) = PlanLen
                            /\ \A t \in Spawned : th[t + 1].len = 1

\* C4: with num_threads = 0 the call returns an error value, no thread was
\* spawned and dest is as the caller passed it.
ZeroThreadsReturnsError ==
    (pc # "plan" /\ num_threads = 0)
        => /\ Returned /\ result = "Err"
           /\ th = <<>>
           /\ dest = Dest0

\* C5: par_map with src and dest of different lengths returns an error value,
\* no thread was spawned and nothing was written, inside dest or past its end
\* (stated for the calls whose chunk arithmetic goes through).
LengthMismatchReturnsError ==
    (pc \notin {"plan", "panicked"} /\ fn = "par_map" /\ Len(src) # Len(dest))
        => /\ Returned /\ result = "Err"
           /\ th = <<>>
           /\ dest = Dest0
           /\ ~oob

\* C6: the call returns Ok exactly when no kernel invocation panicked, and
\* otherwise Err with the payload of the panicked thread of smallest spawn
\* index, whatever the order in which the threads panicked.
FirstFailureInSpawnOrder ==
    Returned =>
        LET failed == {t \in Spawned : th[t + 1].st = "panicked"}
        IN  /\ result \in {"Ok", "Err"}
            /\ result = "Ok" <=> failed = {}
            /\ result = "Ok" <=> panics = {}
            /\ result = "Err" => err = Min(failed) /\ err = Min(panics)
FirstFailureWitness ==
    /\ Returned /\ result = "Err" /\ err = 1
    /\ th[1].st = "done"
    /\ \E t \in Spawned : t > err /\ th[t + 1].st = "panicked"

\* C7: par_map with the adding kernel over an all-zero source, num_threads in
\* [1, len], ends by returning Ok with every element of dest equal to the constant.
ParMapAddsConstant ==
    (/\ fn = "par_map" /\ src = Zeros(Len(src)) /\ Len(src) = Len(dest)
     /\ num_threads >= 1 /\ num_threads <= Len(src)
     /\ panics = {} /\ Ended)
        => /\ Returned /\ result = "Ok"
           /\ \A x \in 1..Len(dest) : dest[x] = KernelX

\* C8: par_in_place_map with the adding kernel, num_threads in [1, len], ends
\* with every element equal to the kernel applied once to its initial value.
InPlaceEqualsSequential ==
    (/\ fn = "par_in_place_map"
     /\ num_threads >= 1 /\ num_threads <= Len(dest)
     /\ panics = {} /\ Ended)
        => /\ Returned /\ result = "Ok"
           /\ \A x \in 1..Len(dest) : dest[x] = KernelElem(Dest0[x])

\* C9: with num_threads = 1 exactly one thread is spawned, its view is
\* [0, len), and dest is at every moment what one kernel invocation over the
\* whole buffer has made of it so far; at the return it is the kernel's output.
SingleThreadWholeBuffer ==
    num_threads = 1 =>
        /\ pc # "panicked"
        /\ AllSpawned =>
              /\ Len(th) = 1
              /\ th[1].off = 0
              /\ th[1].len = PlanLen
              /\ \A x \in 1..Len(dest) :
                    dest[x] = IF x <= th[1].pos THEN KernelElem(In0[x])
                              ELSE Dest0[x]
              /\ (Returned /\ result = "Ok") => th[1].pos = PlanLen
SingleThreadWitness ==
    /\ num_threads = 1 /\ fn = "par_in_place_map" /\ PlanLen >= 2
    /\ Len(dest) = PlanLen
    /\ Returned /\ result = "Ok"

\* C10: over a zero-length buffer, for any num_threads >= 1, every view is
\* empty, no element is read or written, and the call returns Ok (the kernel
\* itself not panicking).
ZeroLengthNoWork ==
    (PlanLen = 0 /\ num_threads >= 1) =>
        /\ pc \notin {"panicked", "crashed"}
        /\ pc # "plan" => \A k \in 0..(num_threads - 1) : Chunk(k).len = 0
        /\ \A t \in Spawned : th[t + 1].len = 0
        /\ reads = {}
        /\ \A x \in 1..Len(dest) : writers[x] = {}
        /\ dest = Dest0
        /\ ~oob
        /\ (Returned /\ panics = {}) => result = "Ok"
        /\ (AllSpawned /\ panics = {} /\ \A t \in Spawned : th[t + 1].st = "done"
               /\ j = Len(th)) => Returned
ZeroLengthWitness ==
    /\ PlanLen = 0 /\ num_threads >= 2 /\ panics = {}
    /\ Returned /\ result = "Ok"
    /\ Len(th) = num_threads

\* C11: with 64 zeros and the kernel adding 1, both functions return Ok with
\* every element equal to 1, for 3 threads (chunks 22, 22, 20) and for 7
\* threads (chunks 10, 10, 10, 10, 10, 10, 4).
Test64AllOnes ==
    /\ pc \notin {"panicked", "crashed"}
    /\ ~oob
    /\ AllSpawned =>
          /\ Len(th) = num_threads
          /\ \A t \in Spawned :
                th[t + 1].len = IF num_threads = TestThreads
                                THEN (IF t < 2 THEN 22 ELSE 20)
                                ELSE (IF t < 6 THEN 10 ELSE 4)
    /\ Returned =>
          /\ result = "Ok"
          /\ Len(dest) = TestLen
          /\ \A x \in 1..Len(dest) : dest[x] = 1
Test64Witness ==
    /\ Returned /\ result = "Ok" /\ num_threads = 7
    /\ fn = "par_in_place_map"
    /\ \A x \in 1..TestLen : dest[x] = 1 /\ writers[x] # {}

\* C12: when some kernel invocation panics, the call has returned Err and no
\* spawned thread is alive after the return.
FailureLeavesNoOrphans ==
    (Returned /\ panics # {})
        => /\ result = "Err"
           /\ Cardinality({t \in Spawned : th[t + 1].st = "running"}) = 0

\* C13: for num_threads >= 1 the view of every spawned thread lies inside
\* [0, len) and no index belongs to the views of two threads.
ViewIndices(t) == (th[t + 1].off)..(th[t + 1].off + th[t + 1].len - 1)
ViewsInsideAndDisjoint ==
    num_threads >= 1 =>
        \A t \in Spawned :
              /\ th[t + 1].off + th[t + 1].len <= PlanLen
              /\ \A u \in Spawned :
                    u # t => ViewIndices(t) \cap ViewIndices(u) = {}

\* C14: when the call has returned Ok, every thread was spawned, has ended
\* normally after running its kernel over its whole view, and was joined.
OkMeansAllDone ==
    (Returned /\ result = "Ok") =>
        /\ Len(th) = num_threads
        /\ j = Len(th)
        /\ \A t \in Spawned : /\ th[t + 1].st = "done"
                              /\ th[t + 1].pos = th[t + 1].len
        /\ ~oob => \A t \in Spawned : \A k \in ViewIndices(t) :
                      t \in writers[k + 1]
OkMeansAllDoneWitness ==
    /\ Returned /\ result = "Ok" /\ Len(th) >= 3
    /\ ~oob
    /\ \A t \in Spawned : th[t + 1].len >= 1

\* C15: for num_threads in [1, len] the call spawns exactly num_threads
\* threads, one per chunk, each with the view of its chunk.
OneThreadPerChunk ==
    (num_threads >= 1 /\ num_threads <= PlanLen /\ Ended)
        => /\ Len(th) = num_threads
           /\ \A t \in Spawned : /\ th[t + 1].off = Chunk(t).off
                                 /\ th[t + 1].len = Chunk(t).len

\* C16: a join happens only when every thread has been spawned, and it is the
\* join of the next handle in spawn order, whose thread has ended.
JoinsAfterSpawnsInOrder ==
    [][j' # j => /\ i = num_threads
                 /\ Len(th) = num_threads
                 /\ pc = "join"
                 /\ j' = j + 1
                 /\ th[j + 1].st # "running"]_vars
JoinsInOrderWitness ==
    /\ pc = "join" /\ j = 1 /\ Len(th) >= 3
    /\ th[2].st = "running"
    /\ th[3].st = "done"

\* C17: under fair scheduling, kernel invocations all ending, the call ends:
\* the caller never waits forever at a join.
CallEnds ==
    /\ <>Ended
    /\ (pc = "join") ~> (pc \in {"returned", "crashed"})
CallEndsWitness ==
    /\ Returned /\ Len(th) >= 2
    /\ \A t \in Spawned : th[t + 1].st # "running"

\* C18: in par_map src is never modified, a thread reads src and writes dest
\* at the same indices, and a dest index is written by one thread only, the
\* one whose chunk contains it.
SrcReadOnlyDestSingleWriter ==
    fn = "par_map" =>
        /\ src = Zeros(Len(src))
        /\ reads = {x - 1 : x \in {y \in 1..Len(dest) : writers[y] # {}}}
        /\ \A x \in 1..Len(dest) :
              /\ Cardinality(writers[x]) <= 1
              /\ \A t \in writers[x] :
                    /\ t \in Spawned
                    /\ th[t + 1].off <= x - 1
                    /\ x - 1 < th[t + 1].off + th[t + 1].len
                    /\ th[t + 1].off = Chunk(t).off
                    /\ th[t + 1].len = Chunk(t).len
SingleWriterWitness ==
    /\ fn = "par_map" /\ Returned /\ result = "Ok"
    /\ Len(dest) >= 3
    /\ writers[1] = {0}
    /\ writers[Len(dest)] = {Len(th) - 1}
    /\ Len(th) >= 3

\* C19: for num_threads >= 1 the chunk arithmetic gives a valid partition
\* exactly when ceil(L/N)*(N-1) <= L; otherwise the subtraction underflows
\* (a panic, or a wrapped length) and some view starts or ends past the
\* buffer, as for L = 10, N = 7.
CeilDiv(a, b) == CHOOSE q \in 0..a : q * b >= a /\ (q - 1) * b < a
ChunksInBounds ==
    \A k \in 0..(num_threads - 1) : Chunk(k).off + Chunk(k).len <= PlanLen
PartitionIffCeilFits ==
    (pc # "plan" /\ num_threads >= 1) =>
        LET over == CeilDiv(PlanLen, num_threads) * (num_threads - 1) - PlanLen
        IN  /\ over <= 0 => /\ pc # "panicked"
                            /\ ChunksContiguous
                            /\ ChunksInBounds
            /\ over > 0 =>
                  \/ pc = "panicked"
                  \/ /\ last_chunk_size = UsizeMod - over
                     /\ ~ChunksContiguous
                     /\ ~ChunksInBounds
                     /\ AllSpawned =>
                           \E t \in Spawned :
                               th[t + 1].off + th[t + 1].len > PlanLen
UnderflowWitness ==
    /\ PlanLen = 10 /\ num_threads = 7
    /\ pc = "join" /\ Len(th) = 7
    /\ th[7].off = 12
    /\ th[7].len = UsizeMod - 2

\* C20: over a valid partition the call ends in a state fixed by its inputs,
\* whatever the schedule: the result is Ok without a panicking kernel and Err
\* of the first one otherwise, and at the return the chunk of every thread
\* whose kernel does not panic is completely mapped.
EndFixedByInputs ==
    (/\ Returned
     /\ ChunksContiguous /\ ChunksInBounds
     /\ fn = "par_map" => Len(src) = Len(dest))
        => /\ result = IF panics = {} THEN "Ok" ELSE "Err"
           /\ panics # {} => err = Min(panics)
           /\ \A t \in Spawned \ panics :
                 \A k \in (th[t + 1].off)..(th[t + 1].off + th[t + 1].len - 1) :
                     dest[k + 1] = KernelElem(In0[k + 1])

====
